---- MODULE Spec2Model ----
(***************************************************************************)
(* Model of quacc.utils.kpts: convert_pmg_kpts (k-point policy resolver)   *)
(* and kspacing_to_grid (spacing-to-grid converter).                       *)
(*                                                                         *)
(* The pymatgen collaborators (Kpoints.automatic_density_by_vol,           *)
(* Kpoints.automatic_density, Kpoints.automatic_density_by_lengths,        *)
(* HighSymmKpath.get_kpoints) are black boxes: each call returns some      *)
(* element of a finite set of possible results.  A Kpoints object is       *)
(* truthy (the class defines neither __bool__ nor __len__), so             *)
(* "not max_pmg_kpts" is the test for None.                                *)
(*                                                                         *)
(* Lengths in reciprocal space (rows of the reciprocal cell, the spacing)  *)
(* are exact fixed-point numbers with a common unit, so that norm/spacing  *)
(* is the quotient of two integers.                                        *)
(***************************************************************************)
EXTENDS Integers, Sequences, FiniteSets, TLC

VARIABLES
    op,            \* which function the caller invoked
    pc,            \* position inside that function
    policy,        \* the caller's mapping object: ordered <<[k, v], ...>>
    policy_arg,    \* the mapping as it was when the call was made
    force_gamma,   \* argument force_gamma
    pmg_kpts,      \* the local name pmg_kpts (rebound inside the loop)
    pos,           \* position of the items() iterator over the mapping
    max_pmg_kpts,  \* the running best (None or a Kpoints object)
    calls,         \* the generator invocations made so far, in order
    kpts,          \* first returned value of convert_pmg_kpts
    gamma,         \* second returned value of convert_pmg_kpts
    err,           \* exception that ended the call ("" when none)
    recip,         \* atoms.cell.reciprocal(): three row vectors
    pbc,           \* atoms.pbc: three booleans
    spacing,       \* argument spacing (> 0)
    kpoint_grid,   \* the local list kpoint_grid
    i              \* index of the enumerate(atoms.pbc) loop

vars == <<op, pc, policy, policy_arg, force_gamma, pmg_kpts, pos, max_pmg_kpts,
          calls, kpts, gamma, err, recip, pbc, spacing, kpoint_grid, i>>

kvars == <<policy, policy_arg, force_gamma, pmg_kpts, pos, max_pmg_kpts,
           calls, kpts, gamma, err>>

svars == <<recip, pbc, spacing, kpoint_grid, i>>

(***************************************************************************)
(* Bounds of the model.                                                    *)
(***************************************************************************)
MaxKeys == 3        \* most keys in a policy mapping
MaxSpacing == 3     \* largest spacing, in fixed-point units

(***************************************************************************)
(* Policies.                                                               *)
(***************************************************************************)
DensityKeys == {"kppvol", "kppa", "length_densities"}

Keys == DensityKeys \cup {"line_density", "foo"}

\* Values a caller may give each key (0 is a falsy line_density).
ValuesOf(k) ==
    CASE k = "line_density" -> {0, 20}
      [] k = "kppvol" -> {50, 100}
      [] k = "kppa" -> {1000}
      [] k = "length_densities" -> {<<10, 10, 10>>}
      [] OTHER -> {1}

KeysOf(p) == {p[j].k : j \in 1..Len(p)}

\* Ordered mappings with pairwise distinct keys, at most n items.
RECURSIVE PoliciesUpTo(_)
PoliciesUpTo(n) ==
    IF n = 0 THEN {<<>>}
    ELSE LET prev == PoliciesUpTo(n - 1)
         IN prev \cup UNION {
              UNION { {Append(p, [k |-> key, v |-> val]) : val \in ValuesOf(key)}
                      : key \in Keys \ KeysOf(p) }
              : p \in {q \in prev : Len(q) = n - 1} }

Policies == PoliciesUpTo(MaxKeys)

\* dict.get(key): the value, or None (falsy) when the key is absent.
HasKey(d, key) == \E j \in 1..Len(d) : d[j].k = key

Get(d, key) == d[CHOOSE j \in 1..Len(d) : d[j].k = key].v

\* Truthiness of pmg_kpts.get("line_density"): None (absent) and 0 are falsy.
Truthy(v) == v # 0

LineDensityRequested(d) ==
    HasKey(d, "line_density") /\ Truthy(Get(d, "line_density"))

(***************************************************************************)
(* The external collaborators.                                             *)
(***************************************************************************)
\* Names of the members of Kpoints.supported_modes the generators return.
StyleNames == {"Gamma", "Monkhorst"}

\* A Python number: the generators give whole numbers, as int or (np.ceil)
\* as float.
PyInt(n) == [val |-> n, type |-> "int"]

PyFloat(n) == [val |-> n, type |-> "float"]

\* Meshes a density generator may return.
Grids == { <<PyInt(1), PyInt(2), PyInt(2)>>, <<PyInt(2), PyInt(2), PyInt(1)>>,
           <<PyInt(2), PyInt(2), PyInt(2)>>, <<PyFloat(3), PyFloat(1), PyFloat(1)>> }

\* A Kpoints object: kpts is a list holding one mesh, style an enum member.
KpointsObjects ==
    {[tag |-> "Kpoints", kpts |-> <<g>>, style |-> s] : g \in Grids, s \in StyleNames}

None == [tag |-> "None"]

\* Ordered k-vectors HighSymmKpath.get_kpoints may return.
Paths == { << <<0, 0, 0>>, <<1, 0, 0>> >>,
           << <<0, 0, 0>>, <<0, 1, 0>>, <<1, 1, 0>> >> }

\* Variant of GeneratorFor with the generators of kppvol and kppa exchanged.
GeneratorForSwapped(key) ==
    CASE key = "kppvol" -> "automatic_density"
      [] key = "kppa" -> "automatic_density_by_vol"
      [] key = "length_densities" -> "automatic_density_by_lengths"
      [] OTHER -> "unsupported"

\* The generator the if/elif chain calls for a key.
GeneratorFor(key) ==
    CASE key = "kppvol" -> "automatic_density_by_vol"
      [] key = "kppa" -> "automatic_density"
      [] key = "length_densities" -> "automatic_density_by_lengths"
      [] OTHER -> "unsupported"

\* One invocation  Kpoints.<generator>(struct, v, force_gamma=force_gamma).
GeneratorCall(key, v, fg, result) ==
    [gen |-> GeneratorFor(key), value |-> v, force_gamma |-> fg, result |-> result]

\* np.prod over a sequence of numbers (the value; only its order is used).
RECURSIVE Prod(_)
Prod(s) == IF s = <<>> THEN 1 ELSE Head(s).val * Prod(Tail(s))

\* int(k) on a mesh entry: the Python int of the same whole value, whether
\* the entry was an int or an integral float.
IntCast(x) == x.val

\* Variant of Lower that leaves the case alone (a missing .lower()).
LowerOmitted(name) == name

\* str.lower() on the style names.
Lower(name) ==
    CASE name = "Gamma" -> "gamma"
      [] name = "Monkhorst" -> "monkhorst"
      [] OTHER -> name

\* Variants of ReplacesBest: the comparison reversed, and the comparison strict.
ReplacesBestReversed(cand, best) ==
    best = None \/ Prod(cand.kpts[1]) <= Prod(best.kpts[1])

ReplacesBestStrict(cand, best) ==
    best = None \/ Prod(cand.kpts[1]) > Prod(best.kpts[1])

\* The condition under which the new candidate becomes the running best.
ReplacesBest(cand, best) ==
    best = None \/ Prod(cand.kpts[1]) >= Prod(best.kpts[1])

\* The items() iterator has another item to yield.
HasNext(d, p) == p <= Len(d)

\* Variant of ItemsView that follows the name: once the name is rebound to a
\* Kpoints object there is no mapping left to iterate.
ItemsViewOfName(d, local) == IF local.tag = "dict" THEN d ELSE <<>>

\* The for statement evaluates pmg_kpts.items() once, while the name is still
\* bound to the mapping d: the view stays on that object whatever the name
\* local is bound to during the loop.
ItemsView(d, local) == d

(***************************************************************************)
(* convert_pmg_kpts                                                        *)
(***************************************************************************)
\* Lines 62-72 and 103: the line-mode branch.
LineMode ==
    /\ op = "convert_pmg_kpts" /\ pc = "start"
    /\ LineDensityRequested(policy)
    /\ \E path \in Paths :
         /\ calls' = Append(calls, [gen |-> "HighSymmKpath.get_kpoints",
                                    value |-> Get(policy, "line_density"),
                                    result |-> path])
         /\ kpts' = [tag |-> "path", val |-> path]
    /\ gamma' = FALSE
    /\ pc' = "returned"
    /\ UNCHANGED <<op, policy, policy_arg, force_gamma, pmg_kpts, pos,
                   max_pmg_kpts, err>>
    /\ UNCHANGED svars

\* Lines 74-76: the else branch binds max_pmg_kpts and creates the iterator.
EnterDensity ==
    /\ op = "convert_pmg_kpts" /\ pc = "start"
    /\ ~LineDensityRequested(policy)
    /\ max_pmg_kpts' = None
    /\ pos' = 1
    /\ pc' = "loop"
    /\ UNCHANGED <<op, policy, policy_arg, force_gamma, pmg_kpts, calls, kpts,
                   gamma, err>>
    /\ UNCHANGED svars

\* Lines 76-86 and 91-98: one iteration for a recognized key.
Generate ==
    /\ op = "convert_pmg_kpts" /\ pc = "loop"
    /\ HasNext(ItemsView(policy, pmg_kpts), pos)
    /\ LET item == ItemsView(policy, pmg_kpts)[pos]
       IN /\ GeneratorFor(item.k) # "unsupported"
          /\ \E cand \in KpointsObjects :
               /\ calls' = Append(calls, GeneratorCall(item.k, item.v,
                                                       force_gamma, cand))
               /\ pmg_kpts' = cand
               /\ max_pmg_kpts' = IF ReplacesBest(cand, max_pmg_kpts)
                                  THEN cand ELSE max_pmg_kpts
    /\ pos' = pos + 1
    /\ UNCHANGED <<op, pc, policy, policy_arg, force_gamma, kpts, gamma, err>>
    /\ UNCHANGED svars

\* Variant of RaiseUnsupported that passes over the key without raising.
RaiseUnsupportedSkipped ==
    /\ op = "convert_pmg_kpts" /\ pc = "loop"
    /\ HasNext(ItemsView(policy, pmg_kpts), pos)
    /\ GeneratorFor(ItemsView(policy, pmg_kpts)[pos].k) = "unsupported"
    /\ pos' = pos + 1
    /\ UNCHANGED <<op, pc, policy, policy_arg, force_gamma, pmg_kpts,
                   max_pmg_kpts, calls, kpts, gamma, err>>
    /\ UNCHANGED svars

\* Lines 87-89: the else arm of the chain raises ValueError.
RaiseUnsupported ==
    /\ op = "convert_pmg_kpts" /\ pc = "loop"
    /\ HasNext(ItemsView(policy, pmg_kpts), pos)
    /\ GeneratorFor(ItemsView(policy, pmg_kpts)[pos].k) = "unsupported"
    /\ err' = "ValueError: Unsupported k-point generation scheme"
    /\ pc' = "raised"
    /\ UNCHANGED <<op, policy, policy_arg, force_gamma, pmg_kpts, pos,
                   max_pmg_kpts, calls, kpts, gamma>>
    /\ UNCHANGED svars

\* Variant of FinishDensity that answers an unset best with a one-point mesh.
FinishDensityDefaulted ==
    /\ op = "convert_pmg_kpts" /\ pc = "loop"
    /\ ~HasNext(ItemsView(policy, pmg_kpts), pos)
    /\ IF max_pmg_kpts = None
       THEN /\ kpts' = [tag |-> "grid", val |-> <<1, 1, 1>>]
            /\ gamma' = FALSE
       ELSE /\ kpts' = [tag |-> "grid",
                        val |-> [j \in 1..Len(max_pmg_kpts.kpts[1]) |->
                                   IntCast(max_pmg_kpts.kpts[1][j])]]
            /\ gamma' = (Lower(max_pmg_kpts.style) = "gamma")
    /\ pc' = "returned"
    /\ UNCHANGED <<op, policy, policy_arg, force_gamma, pmg_kpts, pos,
                   max_pmg_kpts, calls, err>>
    /\ UNCHANGED svars

\* Lines 100-103: after the loop, max_pmg_kpts.kpts is read; on None that is
\* an AttributeError.
FinishDensity ==
    /\ op = "convert_pmg_kpts" /\ pc = "loop"
    /\ ~HasNext(ItemsView(policy, pmg_kpts), pos)
    /\ IF max_pmg_kpts = None
       THEN /\ err' = "AttributeError: 'NoneType' object has no attribute 'kpts'"
            /\ pc' = "raised"
            /\ UNCHANGED <<kpts, gamma>>
       ELSE /\ kpts' = [tag |-> "grid",
                        val |-> [j \in 1..Len(max_pmg_kpts.kpts[1]) |->
                                   IntCast(max_pmg_kpts.kpts[1][j])]]
            /\ gamma' = (Lower(max_pmg_kpts.style) = "gamma")
            /\ pc' = "returned"
            /\ err' = err
    /\ UNCHANGED <<op, policy, policy_arg, force_gamma, pmg_kpts, pos,
                   max_pmg_kpts, calls>>
    /\ UNCHANGED svars

(***************************************************************************)
(* kspacing_to_grid                                                        *)
(***************************************************************************)
\* Rows a reciprocal cell may have, in fixed-point units.  A zero row is what
\* cell.reciprocal() gives along a direction without a cell vector.
RowVectors ==
    {<<0, 0, 0>>, <<4, 0, 0>>, <<0, 4, 0>>, <<0, 0, 8>>, <<0, 3, 4>>, <<1, 0, 0>>}

SumSq(v) == v[1] * v[1] + v[2] * v[2] + v[3] * v[3]

\* np.linalg.norm(..., axis=1) of one row (exact for the rows above).
Norm(v) == CHOOSE n \in 0..SumSq(v) : n * n = SumSq(v)

\* Variant of CeilDiv that rounds down.
FloorDiv(a, b) == a \div b

\* np.ceil(a / b) for a >= 0 and b > 0.
CeilDiv(a, b) == IF a % b = 0 THEN a \div b ELSE (a \div b) + 1

Max(a, b) == IF a >= b THEN a ELSE b

\* Variant of Overridden with the test inverted.
OverriddenInverted(grid, idx, periodic) ==
    IF periodic THEN [grid EXCEPT ![idx] = 1] ELSE grid

\* Lines 130-131: the body of the loop over enumerate(atoms.pbc).
Overridden(grid, idx, periodic) ==
    IF ~periodic THEN [grid EXCEPT ![idx] = 1] ELSE grid

\* Lines 123-128: the norms and the list kpoint_grid.
KsCompute ==
    /\ op = "kspacing_to_grid" /\ pc = "start"
    /\ LET n_x == Norm(recip[1])
           n_y == Norm(recip[2])
           n_z == Norm(recip[3])
       IN kpoint_grid' = << Max(1, CeilDiv(n_x, spacing)),
                            Max(1, CeilDiv(n_y, spacing)),
                            Max(1, CeilDiv(n_z, spacing)) >>
    /\ i' = 0
    /\ pc' = "pbc_loop"
    /\ UNCHANGED <<op, recip, pbc, spacing>>
    /\ UNCHANGED kvars

\* Lines 129-131: one iteration of the loop over enumerate(atoms.pbc).
KsOverride ==
    /\ op = "kspacing_to_grid" /\ pc = "pbc_loop"
    /\ i < Len(pbc)
    /\ kpoint_grid' = Overridden(kpoint_grid, i + 1, pbc[i + 1])
    /\ i' = i + 1
    /\ UNCHANGED <<op, pc, recip, pbc, spacing>>
    /\ UNCHANGED kvars

\* Line 132.
KsReturn ==
    /\ op = "kspacing_to_grid" /\ pc = "pbc_loop"
    /\ i = Len(pbc)
    /\ pc' = "returned"
    /\ UNCHANGED <<op, recip, pbc, spacing, kpoint_grid, i>>
    /\ UNCHANGED kvars

(***************************************************************************)
(* The calls a caller can make.                                            *)
(***************************************************************************)
InitConvert ==
    /\ op = "convert_pmg_kpts"
    /\ policy \in Policies
    /\ policy_arg = policy
    /\ force_gamma \in BOOLEAN
    /\ pmg_kpts = [tag |-> "dict"]
    /\ pos = 0
    /\ max_pmg_kpts = [tag |-> "unbound"]
    /\ calls = <<>>
    /\ kpts = [tag |-> "unset"]
    /\ gamma = FALSE
    /\ err = ""
    /\ recip = << <<0, 0, 0>>, <<0, 0, 0>>, <<0, 0, 0>> >>
    /\ pbc = <<TRUE, TRUE, TRUE>>
    /\ spacing = 1
    /\ kpoint_grid = <<>>
    /\ i = 0

InitKspacing ==
    /\ op = "kspacing_to_grid"
    /\ recip \in RowVectors \X RowVectors \X RowVectors
    /\ pbc \in BOOLEAN \X BOOLEAN \X BOOLEAN
    /\ spacing \in 1..MaxSpacing
    /\ kpoint_grid = <<>>
    /\ i = 0
    /\ policy = <<>>
    /\ policy_arg = <<>>
    /\ force_gamma = FALSE
    /\ pmg_kpts = [tag |-> "dict"]
    /\ pos = 0
    /\ max_pmg_kpts = [tag |-> "unbound"]
    /\ calls = <<>>
    /\ kpts = [tag |-> "unset"]
    /\ gamma = FALSE
    /\ err = ""

Init == pc = "start" /\ (InitConvert \/ InitKspacing)

Next ==
    \/ LineMode
    \/ EnterDensity
    \/ Generate
    \/ RaiseUnsupported
    \/ FinishDensity
    \/ KsCompute
    \/ KsOverride
    \/ KsReturn

Spec == Init /\ [][Next]_vars

(***************************************************************************)
(* Vocabulary of the properties.                                           *)
(***************************************************************************)
Resolving == op = "convert_pmg_kpts"

Done == pc \in {"returned", "raised"}

UnsupportedError == "ValueError: Unsupported k-point generation scheme"

UnsetBestError == "AttributeError: 'NoneType' object has no attribute 'kpts'"

DensityGenerators ==
    {"automatic_density_by_vol", "automatic_density", "automatic_density_by_lengths"}

\* Total k-point count of a returned mesh (three ints) and of a candidate's
\* mesh (three numbers).
Count(g) == g[1] * g[2] * g[3]

MeshCount(m) == m[1].val * m[2].val * m[3].val

\* A returned mesh g is the candidate mesh m: three ints of m's values.
SameMesh(g, m) ==
    /\ Len(g) = 3
    /\ \A j \in 1..3 : g[j] \in Nat /\ g[j] = m[j].val

\* Positions of the policy holding a key that is no density key.
Unrecognized(d) == {j \in 1..Len(d) : d[j].k \notin DensityKeys}

RecognizedKeys(d) == KeysOf(d) \cap DensityKeys

\* The candidates generated so far, and the largest count among them.
CandCount(j) == MeshCount(calls[j].result.kpts[1])

MaxCount == CHOOSE m \in {CandCount(j) : j \in 1..Len(calls)} :
                \A j \in 1..Len(calls) : CandCount(j) <= m

\* The last candidate, in evaluation order, among those of the largest count.
LastDensest == CHOOSE j \in 1..Len(calls) :
                   /\ CandCount(j) = MaxCount
                   /\ \A l \in 1..Len(calls) : CandCount(l) = MaxCount => l <= j

\* The generator each density key stands for.
ExpectedGenerator(key) ==
    IF key = "kppvol" THEN "automatic_density_by_vol"
    ELSE IF key = "kppa" THEN "automatic_density"
    ELSE "automatic_density_by_lengths"

\* calls[j] is the invocation the j-th policy item asks for.
CallMatchesItem(j) ==
    /\ calls[j].gen = ExpectedGenerator(policy_arg[j].k)
    /\ calls[j].value = policy_arg[j].v
    /\ calls[j].force_gamma = force_gamma

(***************************************************************************)
(* C1: with no line_density key and two or more recognized density keys,   *)
(* the call returns a mesh whose total k-point count is at least the count *)
(* of every scheme's candidate and equals the largest of those counts      *)
(* (and it does return when every key is a density key).                   *)
(***************************************************************************)
C1_DensestCountReturned ==
    (Resolving /\ Done /\ ~HasKey(policy_arg, "line_density")
       /\ Cardinality(RecognizedKeys(policy_arg)) >= 2) =>
        /\ Unrecognized(policy_arg) = {} => pc = "returned"
        /\ pc = "returned" =>
            /\ kpts.tag = "grid"
            /\ Len(calls) = Cardinality(RecognizedKeys(policy_arg))
            /\ \A j \in 1..Len(calls) : Count(kpts.val) >= CandCount(j)
            /\ \E j \in 1..Len(calls) : Count(kpts.val) = CandCount(j)

\* A three-key policy whose first candidate is the densest has been resolved.
C1_Witness ==
    /\ Resolving /\ pc = "returned" /\ ~HasKey(policy_arg, "line_density")
    /\ Len(calls) = 3
    /\ CandCount(1) > CandCount(2) /\ CandCount(2) < CandCount(3)
    /\ CandCount(1) > CandCount(3)

(***************************************************************************)
(* C2: whenever the key line_density is present, whatever its value, the   *)
(* call ends in the line-mode branch: the path generator's k-vectors are   *)
(* returned with gamma false, no density generator is invoked and the      *)
(* unsupported-scheme error is not raised.                                 *)
(***************************************************************************)
C2_LineDensityAlwaysLineMode ==
    (Resolving /\ Done /\ HasKey(policy_arg, "line_density")) =>
        /\ pc = "returned"
        /\ kpts.tag = "path"
        /\ gamma = FALSE
        /\ \A j \in 1..Len(calls) : calls[j].gen \notin DensityGenerators
        /\ err # UnsupportedError

(***************************************************************************)
(* C3: in density mode a policy holding any key other than kppvol, kppa    *)
(* and length_densities ends with the unsupported-scheme error and returns *)
(* no mesh, wherever that key stands and whatever was computed before it.  *)
(***************************************************************************)
C3_UnrecognizedKeyRaises ==
    (Resolving /\ ~LineDensityRequested(policy_arg)
       /\ Unrecognized(policy_arg) # {}) =>
        /\ pc # "returned"
        /\ kpts.tag = "unset"
        /\ pc = "raised" => err = UnsupportedError
        /\ Done \/ ENABLED Next

\* The error was raised at the last of three keys, after two candidates.
C3_Witness ==
    /\ Resolving /\ pc = "raised" /\ err = UnsupportedError
    /\ Len(policy_arg) = 3 /\ Unrecognized(policy_arg) = {3}
    /\ Len(calls) = 2

(***************************************************************************)
(* C4: a policy of exactly one key, a recognized density key, returns      *)
(* exactly the mesh of that key's generator, which was called once with    *)
(* the key's value and the caller's force_gamma; nothing else is called.   *)
(***************************************************************************)
C4_SingleKeyIdentity ==
    (Resolving /\ Done /\ Len(policy_arg) = 1
       /\ policy_arg[1].k \in DensityKeys) =>
        /\ pc = "returned"
        /\ Len(calls) = 1
        /\ CallMatchesItem(1)
        /\ kpts.tag = "grid"
        /\ SameMesh(kpts.val, calls[1].result.kpts[1])

\* A one-key policy whose generator gave a mesh of integral floats.
C4_Witness ==
    /\ Resolving /\ pc = "returned" /\ Len(policy_arg) = 1
    /\ policy_arg[1].k = "kppa" /\ force_gamma
    /\ calls[1].result.kpts[1] = <<PyFloat(3), PyFloat(1), PyFloat(1)>>
    /\ kpts.tag = "grid" /\ kpts.val = <<3, 1, 1>>

(***************************************************************************)
(* C5: kspacing_to_grid returns exactly 1 on every axis whose periodicity  *)
(* flag is false, whatever norm/spacing gives there, and the override      *)
(* loop leaves the value of every periodic axis as it was computed.        *)
(***************************************************************************)
C5_NonPeriodicAxesAreOne ==
    /\ []((op = "kspacing_to_grid" /\ pc = "returned") =>
            \A j \in 1..3 : ~pbc[j] => kpoint_grid[j] = 1)
    /\ [][(op = "kspacing_to_grid" /\ pc = "pbc_loop") =>
            \A j \in 1..3 : pbc[j] => kpoint_grid'[j] = kpoint_grid[j]]_vars

\* Norms 4, 4, 8 at spacing 1 (2.0, 2.0, 4.0 at 0.5) with axis 2 (the third)
\* non-periodic: the computed 8 was overridden.
C5_Witness ==
    /\ op = "kspacing_to_grid" /\ pc = "returned"
    /\ recip = << <<4, 0, 0>>, <<0, 4, 0>>, <<0, 0, 8>> >>
    /\ spacing = 1
    /\ pbc = <<TRUE, TRUE, FALSE>>
    /\ kpoint_grid = <<4, 4, 1>>

(***************************************************************************)
(* C6: on every periodic axis j the returned value is                      *)
(* max(1, ceil(norm(reciprocal row j) / spacing)): the least integer g >= 1*)
(* with g * spacing >= norm; axis j reads row j and flag j; every entry of *)
(* the returned grid is an integer >= 1; norms 4, 4, 8 at spacing 1 (2, 2, *)
(* 4 at 1/2), all periodic, give <<4, 4, 8>>.                              *)
(***************************************************************************)
C6_PeriodicAxesCeil ==
    (op = "kspacing_to_grid" /\ pc = "returned") =>
        /\ Len(kpoint_grid) = 3
        /\ \A j \in 1..3 : kpoint_grid[j] \in Nat /\ kpoint_grid[j] >= 1
        /\ \A j \in 1..3 : pbc[j] =>
             LET g == kpoint_grid[j]
                 sq == recip[j][1] * recip[j][1] + recip[j][2] * recip[j][2]
                         + recip[j][3] * recip[j][3]
             IN /\ (g * spacing) * (g * spacing) >= sq
                /\ g > 1 => ((g - 1) * spacing) * ((g - 1) * spacing) < sq
        /\ (recip = << <<4, 0, 0>>, <<0, 4, 0>>, <<0, 0, 8>> >> /\ spacing = 1
              /\ pbc = <<TRUE, TRUE, TRUE>>) => kpoint_grid = <<4, 4, 8>>

\* A periodic axis where the quotient is not whole (5 / 3) and one where the
\* norm is zero and max(1, .) decides.
C6_Witness ==
    /\ op = "kspacing_to_grid" /\ pc = "returned"
    /\ pbc = <<TRUE, TRUE, TRUE>>
    /\ recip[1] = <<0, 3, 4>> /\ spacing = 3 /\ kpoint_grid[1] = 2
    /\ recip[2] = <<0, 0, 0>> /\ kpoint_grid[2] = 1
    /\ recip[3] = <<0, 0, 8>> /\ kpoint_grid[3] = 3

(***************************************************************************)
(* C7: a later candidate replaces the running best whenever its count is   *)
(* greater than or equal to the best's, so the running best is always the  *)
(* LAST evaluated candidate among those of the largest count, and that     *)
(* candidate's mesh is the one returned.                                   *)
(***************************************************************************)
C7_LastOfEqualDensestWins ==
    (Resolving /\ Len(calls) >= 1 /\ calls[1].gen \in DensityGenerators) =>
        /\ pc = "loop" => max_pmg_kpts = calls[LastDensest].result
        /\ pc = "returned" =>
             /\ kpts.tag = "grid"
             /\ SameMesh(kpts.val, calls[LastDensest].result.kpts[1])

\* Two different meshes of the same, largest, count: the later was returned.
C7_Witness ==
    /\ Resolving /\ pc = "returned" /\ Len(calls) = 3
    /\ calls[1].result.kpts[1] = <<PyInt(1), PyInt(2), PyInt(2)>>
    /\ calls[2].result.kpts[1] = <<PyInt(2), PyInt(2), PyInt(1)>>
    /\ calls[3].result.kpts[1] = <<PyFloat(3), PyFloat(1), PyFloat(1)>>
    /\ kpts.tag = "grid" /\ kpts.val = <<2, 2, 1>>

(***************************************************************************)
(* C8: in density mode the returned gamma flag is true exactly when the    *)
(* style name of the selected candidate (the final running best) is        *)
(* "gamma" up to case, and the returned mesh is that candidate's mesh;     *)
(* neither another candidate's style nor force_gamma decides the flag.     *)
(***************************************************************************)
C8_GammaFromSelectedStyle ==
    (Resolving /\ pc = "returned" /\ kpts.tag = "grid") =>
        /\ max_pmg_kpts \in KpointsObjects
        /\ gamma <=> max_pmg_kpts.style \in {"Gamma", "gamma", "GAMMA"}
        /\ SameMesh(kpts.val, max_pmg_kpts.kpts[1])

\* The selected candidate is gamma-centred although force_gamma is false and
\* the candidate evaluated last is not.
C8_Witness ==
    /\ Resolving /\ pc = "returned" /\ kpts.tag = "grid"
    /\ gamma /\ ~force_gamma
    /\ pmg_kpts.tag = "Kpoints" /\ pmg_kpts.style = "Monkhorst"
    /\ max_pmg_kpts # pmg_kpts

(***************************************************************************)
(* C9: for an empty policy no generator is invoked, the running best stays *)
(* unset, and the call ends with the error of dereferencing it; no mesh    *)
(* and gamma flag are returned.                                            *)
(***************************************************************************)
C9_EmptyPolicyFails ==
    (Resolving /\ policy_arg = <<>>) =>
        /\ calls = <<>>
        /\ pc # "returned"
        /\ kpts.tag = "unset"
        /\ pc = "loop" => max_pmg_kpts = None
        /\ pc = "raised" => (err = UnsetBestError /\ max_pmg_kpts = None)
        /\ Done \/ ENABLED Next

C9_Witness ==
    Resolving /\ policy_arg = <<>> /\ pc = "raised" /\ err = UnsetBestError

(***************************************************************************)
(* C10: although the loop rebinds the name pmg_kpts, the iteration visits  *)
(* the keys of the caller's mapping once each, in mapping order, up to the *)
(* first unrecognized key; each recognized key's generator is invoked once *)
(* with that key's value; the caller's mapping is unchanged throughout.    *)
(***************************************************************************)
C10_IterationOverOriginalMapping ==
    (Resolving /\ ~LineDensityRequested(policy_arg)) =>
        /\ policy = policy_arg
        /\ Len(calls) <= Len(policy_arg)
        /\ \A j \in 1..Len(calls) :
             policy_arg[j].k \in DensityKeys /\ CallMatchesItem(j)
        /\ pc = "loop" => pos = Len(calls) + 1
        /\ pc = "returned" => Len(calls) = Len(policy_arg)
        /\ pc = "raised" =>
             \/ /\ err = UnsupportedError
                /\ Len(calls) < Len(policy_arg)
                /\ policy_arg[Len(calls) + 1].k \notin DensityKeys
             \/ err = UnsetBestError /\ policy_arg = <<>>

\* All three keys were visited after the name had been rebound.
C10_Witness ==
    /\ Resolving /\ pc = "returned" /\ Len(policy_arg) = 3
    /\ Len(calls) = 3 /\ pmg_kpts.tag = "Kpoints" /\ policy = policy_arg

====
